---- MODULE Spec2Model ----
(***************************************************************************)
(* wakanda-lb: an HTTP reverse-proxy load balancer.                        *)
(*                                                                         *)
(* The model covers the shared healthy list (Arc<RwLock<Vec<String>>>),     *)
(* the TimedBackgroundChecker loop that replaces it, the two SelectServer  *)
(* implementations (round robin and random) that read it, and the axum     *)
(* handler proxy_endpoint that selects a server and forwards the request.  *)
(*                                                                         *)
(* Seven specifications are defined over the same variables:               *)
(*   SpecSelect    the checker task and concurrent callers of              *)
(*                 SelectServer::execute (the unit under the selector      *)
(*                 tests);                                                 *)
(*   Spec          the checker task and inbound requests handled by        *)
(*                 proxy_endpoint (the program started by main);           *)
(*   SpecPoisoned  as Spec, but the RwLock may already be poisoned, which  *)
(*                 is the condition the PoisonedRead branches handle;      *)
(*   SpecConcurrent several handlers calling SelectServer::execute at the  *)
(*                 same time over a list that is never replaced;           *)
(*   SpecLive      as SpecSelect, under the scheduling of the tasks and of *)
(*                 the lock;                                               *)
(*   SpecPipeline  proxy_endpoint under requests with headers and a body,  *)
(*                 over any HttpClient and over ReqwestHttpClient;         *)
(*   SpecCli       main from its command line to the running checker.      *)
(***************************************************************************)
EXTENDS Integers, Sequences, FiniteSets, TLC

VARIABLES
    all_servers,            \* TimedBackgroundChecker.all_servers
    routing_policy,         \* CliArguments.routing_policy
    healthy_servers,        \* the Vec behind Arc<RwLock<Vec<String>>>
    poisoned,               \* poison flag of that RwLock
    readers,                \* callers holding a read guard of that RwLock
    current_server_index,   \* RoundRobinSelectServer.current_server_index
    chk,                    \* position and locals of TimedBackgroundChecker::execute
    sel,                    \* per caller: position and locals of SelectServer::execute
    req,                    \* the inbound request in proxy_endpoint: position and locals
    hist,                   \* history (not program state): what happened so far
    cli                     \* main: its position, the command line and CliArguments

vars == <<all_servers, routing_policy, healthy_servers, poisoned, readers,
          current_server_index, chk, sel, req, hist, cli>>

----------------------------------------------------------------------------
(* Bounds of the model *)

\* largest number of configured target servers, for the selector alone
MaxTargets == 2
\* largest number of configured target servers, for the whole proxy
MaxProxyTargets == 1
\* width in bits of the round-robin counter (usize in the source)
UsizeBits == 2
\* round-robin selections allowed after the counter has wrapped once
ExtraCalls == 1
\* concurrent callers of SelectServer::execute (unit callers or request handlers)
MaxCallers == 1
\* concurrent callers of SelectServer::execute over a list no checker replaces
MaxConcurrent == 2
\* largest number of servers in that list
MaxRotationTargets == 3
\* round-robin selections those callers may make after the counter has wrapped
ExtraConcurrentCalls == 2
\* round-robin selections made under the fair scheduling of SpecLive
MaxLiveCalls == 1

UsizeModulus == 2 ^ UsizeBits
MaxCalls == UsizeModulus + ExtraCalls
MaxConcurrentCalls == UsizeModulus + ExtraConcurrentCalls

Callers == 1 .. MaxCallers

TargetUrls == <<"http://a", "http://b", "http://c", "http://d", "http://e">>

\* the configured lists of at most max servers: --target-servers a,b,...
Configs(max) == { SubSeq(TargetUrls, 1, n) : n \in 0 .. max }

Range(s) == { s[i] : i \in 1 .. Len(s) }

None == [kind |-> "None", val |-> "", status |-> 0]

----------------------------------------------------------------------------
(* http_client: requests, responses and errors *)

\* --target-servers-health-path, default value
HealthEndpoint == "/health"

\* statuses an upstream answers a probe with
ProbeStatuses == {200, 204, 503}

\* http_client::error::Error
HttpClientErrors == {"Network", "InvalidRequest", "Timeout"}

\* what tokio::time::timeout(5s, http_client.execute(request)).await yields:
\* Ok(Ok(response)), Ok(Err(error)) or Err(Elapsed)
ProbeOutcomes ==
    { [kind |-> "Response", val |-> "", status |-> s] : s \in ProbeStatuses }
    \cup { [kind |-> "Error", val |-> e, status |-> 0] : e \in HttpClientErrors }
    \cup { [kind |-> "Elapsed", val |-> "", status |-> 0] }

----------------------------------------------------------------------------
(* History *)

\* cycle_ok: per probe of the running cycle, whether it returned status 200;
\* last_cycle: the same for the last completed cycle; cycled: a cycle has
\* completed; ticked: the interval has ticked; last_probe: the last probe
\* judged; fetches: fetch_update calls;
\* max_calls: the fetch_update calls the specification allows;
\* last_pick: index and length used by the latest round-robin selection
\* since the list was last replaced (length 0: none yet);
\* returns: per server, the round-robin selections that returned it while
\* the list was the one set at construction; replaced: the list
\* the latest completed replacement stored (at first the configured one)
HistInit == [cycle_ok |-> <<>>, last_cycle |-> <<>>, cycled |-> FALSE, ticked |-> FALSE,
             last_probe |-> None, fetches |-> 0, max_calls |-> 0,
             last_pick |-> [idx |-> 0, len |-> 0],
             returns |-> [server \in Range(TargetUrls) |-> 0],
             replaced |-> <<>>]

----------------------------------------------------------------------------
(* TimedBackgroundChecker *)

\* the request built by is_server_healthy
HealthRequest(server) ==
    [method |-> "Get", url |-> server \o cli.parsed.target_servers_health_path]

\* variant: every 2xx status counts as healthy
is_server_healthy_any_2xx(outcome) ==
    outcome.kind = "Response" /\ outcome.status >= 200 /\ outcome.status < 300

\* the match on the probe's result in is_server_healthy
is_server_healthy(outcome) ==
    CASE outcome.kind = "Response" -> outcome.status = 200
      [] outcome.kind = "Error"    -> FALSE
      [] outcome.kind = "Elapsed"  -> FALSE

\* variant: every probed server is pushed, healthy or not
PushEveryServer(new_healthy_servers, server, healthy) ==
    Append(new_healthy_servers, server)

\* variant: the probed URL is pushed instead of the server
PushUrlIfHealthy(new_healthy_servers, server, healthy) ==
    IF healthy THEN Append(new_healthy_servers, server \o HealthEndpoint)
    ELSE new_healthy_servers

\* variant: a healthy server is put in front of the new list
PushFrontIfHealthy(new_healthy_servers, server, healthy) ==
    IF healthy THEN <<server>> \o new_healthy_servers ELSE new_healthy_servers

\* the body of the for loop of execute: push the server when it is healthy
PushIfHealthy(new_healthy_servers, server, healthy) ==
    IF healthy THEN Append(new_healthy_servers, server) ELSE new_healthy_servers

\* variant: the write does not wait for the read guards
CanWriteUnderReaders == TRUE

\* RwLock::write blocks until no read guard is held
CanWrite == readers = {}

\* variant: the write guard is taken before the for loop and kept over the probes
WriteLockedWhileProbing == {"probing", "probe_wait", "write"}

\* the positions of execute at which the task is suspended holding the write
\* guard: none, the guard lives inside the match on write(), which has no await
WriteLockedAt == {}

\* RwLock::read blocks while the write guard is held
CanRead == chk.pc \notin WriteLockedAt

ChkWaiting == [pc |-> "waiting", i |-> 0, new_healthy_servers |-> <<>>, request |-> None]

\* variant: the emptiness test is missing
SkipCycleNever(servers) == FALSE

\* if self.all_servers.is_empty() { continue }
SkipCycle(servers) == servers = <<>>

\* interval.tick().await, then the emptiness test and the start of a cycle
\* (a for loop over no server goes straight to the write)
Tick ==
    /\ chk.pc = "waiting"
    /\ IF SkipCycle(all_servers)
       THEN /\ UNCHANGED chk
            /\ hist' = [hist EXCEPT !.ticked = TRUE]
       ELSE /\ chk' = [pc |-> IF all_servers = <<>> THEN "write" ELSE "probing",
                       i |-> IF all_servers = <<>> THEN 0 ELSE 1,
                       new_healthy_servers |-> <<>>,
                       request |-> None]
            /\ hist' = [hist EXCEPT !.cycle_ok = <<>>, !.ticked = TRUE]
    /\ UNCHANGED <<cli, all_servers, routing_policy, healthy_servers, poisoned, readers,
                   current_server_index, sel, req>>

\* is_server_healthy, up to the await of the probe
ProbeIssue ==
    /\ chk.pc = "probing"
    /\ chk' = [chk EXCEPT !.pc = "probe_wait",
                          !.request = HealthRequest(all_servers[chk.i])]
    /\ hist' = [hist EXCEPT !.last_probe = None]
    /\ UNCHANGED <<cli, all_servers, routing_policy, healthy_servers, poisoned, readers,
                   current_server_index, sel, req>>

\* variant: a failed probe ends the cycle, the servers after it are not probed
NextAfterProbeSkipRest(healthy, last) ==
    IF last \/ ~healthy THEN "write" ELSE "probing"

\* variant: a failed probe ends the loop
NextAfterProbeStopOnFailure(healthy, last) ==
    IF ~healthy THEN "terminated" ELSE IF last THEN "write" ELSE "probing"

\* where execute goes after a probe: both arms of the if in the for loop fall
\* through to the next server, and after the last one to the write
NextAfterProbe(healthy, last) ==
    IF last THEN "write" ELSE "probing"

\* the probe resolves; is_server_healthy returns and the loop body finishes
ProbeResolve(outcome) ==
    /\ chk.pc = "probe_wait"
    /\ LET healthy == is_server_healthy(outcome)
           last    == chk.i = Len(all_servers)
       IN /\ chk' = [pc |-> NextAfterProbe(healthy, last),
                     i |-> IF last THEN 0 ELSE chk.i + 1,
                     new_healthy_servers |->
                         PushIfHealthy(chk.new_healthy_servers, all_servers[chk.i], healthy),
                     request |-> None]
          /\ hist' = [hist EXCEPT
                        !.cycle_ok = Append(@, outcome.kind = "Response" /\ outcome.status = 200),
                        !.last_probe = [server |-> all_servers[chk.i],
                                        request |-> chk.request, outcome |-> outcome,
                                        healthy |-> healthy]]
    /\ UNCHANGED <<cli, all_servers, routing_policy, healthy_servers, poisoned, readers,
                   current_server_index, sel, req>>

\* variant: the new list is built but never stored in the shared one
\* variant: the new list is appended to the old one
ReplacedAppends(is_poisoned, old_healthy_servers, new_healthy_servers) ==
    IF is_poisoned THEN old_healthy_servers
    ELSE old_healthy_servers \o new_healthy_servers

ReplacedKeepsOld(is_poisoned, old_healthy_servers, new_healthy_servers) ==
    old_healthy_servers

\* the match on self.healthy_servers.write(): Ok stores the new list through
\* the guard, Err (poisoned) only logs
Replaced(is_poisoned, old_healthy_servers, new_healthy_servers) ==
    IF is_poisoned THEN old_healthy_servers ELSE new_healthy_servers

\* self.healthy_servers.write(): replace the list, or log the poison error
Write ==
    /\ chk.pc = "write"
    /\ CanWrite
    /\ healthy_servers' = Replaced(poisoned, healthy_servers, chk.new_healthy_servers)
    /\ chk' = ChkWaiting
    /\ hist' = [hist EXCEPT !.last_cycle = hist.cycle_ok,
                            !.cycled = TRUE,
                            !.last_probe = None,
                            !.returns = HistInit.returns,
                            !.last_pick = HistInit.last_pick,
                            !.replaced = chk.new_healthy_servers]
    /\ UNCHANGED <<cli, all_servers, routing_policy, poisoned, readers,
                   current_server_index, sel, req>>

Checker ==
    \/ Tick
    \/ ProbeIssue
    \/ \E outcome \in ProbeOutcomes : ProbeResolve(outcome)
    \/ Write

----------------------------------------------------------------------------
(* SelectServer::execute of RoundRobinSelectServer and RandomSelectServer *)

\* (after_cycle: a replacement of the list had completed when the call started)
SelIdle == [pc |-> "idle", was_empty |-> FALSE, len |-> 0, idx |-> 0,
            snapshot |-> <<>>, result |-> None, after_cycle |-> FALSE]

Ok(server) == [kind |-> "Ok", val |-> server, status |-> 0]
Err(error) == [kind |-> "Err", val |-> error, status |-> 0]

\* variant: the emptiness test is missing
ReadOutcomeNoEmptyTest(is_poisoned, target_servers) ==
    IF is_poisoned THEN "PoisonedRead" ELSE "Locked"

\* the first two statements of execute: read() and the emptiness test
ReadOutcome(is_poisoned, target_servers) ==
    IF is_poisoned THEN "PoisonedRead"
    ELSE IF target_servers = <<>> THEN "NoOneIsAlive"
    ELSE "Locked"

\* variant: the counter saturates at usize::MAX instead of wrapping
SaturatingAdd(current) ==
    IF current + 1 >= UsizeModulus THEN current ELSE current + 1

\* usize::wrapping_add(current, 1)
WrappingAdd(current) == (current + 1) % UsizeModulus

\* index % len of the round-robin selector
RoundRobinIndex(index, len) == index % len

\* variant: the first index is never drawn
RandomRangeFromOne(len) == 1 .. len - 1

\* rand::rng().random_range(0..len) of the random selector
RandomRange(len) == 0 .. len - 1

\* round-robin selections that may still be started
CallsLeft ==
    hist.fetches + Cardinality({ c \in DOMAIN sel : sel[c].pc \in {"called", "locked"} })
        < hist.max_calls

\* self.target_servers.read() and target_servers.is_empty(): the caller either
\* returns an error or keeps the read guard and the length of the list
SelRead(c) ==
    /\ sel[c].pc = "called"
    /\ CanRead
    /\ LET out == ReadOutcome(poisoned, healthy_servers)
       IN IF out = "Locked"
          THEN /\ sel' = [sel EXCEPT ![c].pc = "locked",
                                     ![c].was_empty = healthy_servers = <<>>,
                                     ![c].len = Len(healthy_servers),
                                     ![c].snapshot = healthy_servers]
               /\ readers' = readers \cup {c}
          ELSE /\ sel' = [sel EXCEPT ![c].pc = "returned",
                                     ![c].was_empty = healthy_servers = <<>>,
                                     ![c].result = Err(out),
                                     ![c].after_cycle = FALSE]
               /\ UNCHANGED readers
    /\ UNCHANGED <<cli, all_servers, routing_policy, healthy_servers, poisoned,
                   current_server_index, chk, req, hist>>

\* round robin: fetch_update(wrapping_add) and index % len (a remainder by
\* zero panics, after the counter was advanced)
RoundRobinPick(c) ==
    /\ sel[c].pc = "locked"
    /\ routing_policy = "round-robin"
    /\ current_server_index' = WrappingAdd(current_server_index)
    /\ hist' = [hist EXCEPT !.fetches = @ + 1,
                            !.last_pick = [idx |-> IF sel[c].len = 0 THEN 0
                                                   ELSE RoundRobinIndex(current_server_index,
                                                                        sel[c].len),
                                           len |-> sel[c].len]]
    /\ IF sel[c].len = 0
       THEN /\ sel' = [sel EXCEPT ![c] = [SelIdle EXCEPT !.pc = "panicked"]]
            /\ readers' = readers \ {c}
       ELSE /\ sel' = [sel EXCEPT ![c].pc = "picked",
                                  ![c].idx = RoundRobinIndex(current_server_index, sel[c].len)]
            /\ UNCHANGED readers
    /\ UNCHANGED <<cli, all_servers, routing_policy, healthy_servers, poisoned, chk, req>>

\* random: random_range(0..len) (an empty range panics)
RandomPick(c) ==
    /\ sel[c].pc = "locked"
    /\ routing_policy = "random"
    /\ IF sel[c].len = 0
       THEN /\ sel' = [sel EXCEPT ![c] = [SelIdle EXCEPT !.pc = "panicked"]]
            /\ readers' = readers \ {c}
       ELSE /\ \E random_index \in RandomRange(sel[c].len) :
                  sel' = [sel EXCEPT ![c].pc = "picked", ![c].idx = random_index]
            /\ UNCHANGED readers
    /\ UNCHANGED <<cli, all_servers, routing_policy, healthy_servers, poisoned,
                   current_server_index, chk, req, hist>>

\* target_servers[index].clone() (an index out of bounds panics); the read
\* guard is dropped on return
SelIndex(c) ==
    /\ sel[c].pc = "picked"
    /\ readers' = readers \ {c}
    /\ IF sel[c].idx < Len(healthy_servers)
       THEN /\ sel' = [sel EXCEPT ![c] = [SelIdle EXCEPT
                                             !.pc = "returned",
                                             !.result = Ok(healthy_servers[sel[c].idx + 1])]]
            /\ hist' = IF routing_policy = "round-robin" /\ ~hist.cycled
                       THEN [hist EXCEPT !.returns[healthy_servers[sel[c].idx + 1]] = @ + 1]
                       ELSE hist
       ELSE /\ sel' = [sel EXCEPT ![c] = [SelIdle EXCEPT !.pc = "panicked"]]
            /\ UNCHANGED hist
    /\ UNCHANGED <<cli, all_servers, routing_policy, healthy_servers, poisoned,
                   current_server_index, chk, req>>

Select(c) ==
    \/ SelRead(c)
    \/ RoundRobinPick(c)
    \/ RandomPick(c)
    \/ SelIndex(c)

\* a caller invokes select_server.execute(Request {})
Call(c) ==
    /\ sel[c].pc \in {"idle", "returned"}
    /\ CallsLeft
    /\ sel' = [sel EXCEPT ![c] = [SelIdle EXCEPT !.pc = "called",
                                                 !.after_cycle = hist.cycled]]
    /\ UNCHANGED <<cli, all_servers, routing_policy, healthy_servers, poisoned, readers,
                   current_server_index, chk, req, hist>>

----------------------------------------------------------------------------
(* main.rs: proxy_endpoint and its conversions *)

NoUri == [path |-> "", query |-> ""]
\* RequestHeaders(HashMap<String, String>) is held as the set of its
\* (name, value) entries; an http::HeaderMap as the sequence of its entries,
\* each with the kind of its value's bytes: "ascii" (visible ASCII), "utf8"
\* (valid UTF-8 beyond ASCII) or "opaque" (not valid UTF-8)
NoHeaders == {}
NoRequest == [method |-> "", url |-> "", headers |-> NoHeaders, body |-> "",
              x_request_id |-> "absent"]
NoResponse == [status |-> 0, body |-> ""]
NoWire == [kind |-> "None"]

\* a header map without an x-request-id entry
Absent == "absent"

\* x_request_id_in is the x-request-id header as received, x_request_id the
\* one the handlers see, response_x_request_id the one the router answers with;
\* headers and body are the other headers and the body of the request, wire
\* what reqwest got from the upstream, response_headers the other headers of
\* the response
ReqIdle == [pc |-> "idle", method |-> "", uri |-> NoUri,
            x_request_id_in |-> Absent, x_request_id |-> Absent,
            headers |-> <<>>, body |-> "",
            select |-> None, sent |-> NoRequest, wire |-> NoWire, upstream |-> None,
            response |-> NoResponse, response_x_request_id |-> Absent,
            response_headers |-> NoHeaders]

\* inbound requests: an http::Method, a target with or without a query, and
\* an x-request-id header or none
InboundRequests ==
    { [method |-> m, uri |-> [path |-> "/x", query |-> ""], x_request_id |-> Absent] :
        m \in {"GET", "POST", "PUT", "DELETE", "PATCH", "OPTIONS", "HEAD"} }
    \cup { [method |-> "GET", uri |-> [path |-> "/x", query |-> "q=1"],
            x_request_id |-> Absent] }
    \cup { [method |-> m, uri |-> [path |-> "/x", query |-> ""],
            x_request_id |-> "custom-123"] : m \in {"GET", "OPTIONS"} }
    \cup { [method |-> "GET", uri |-> [path |-> "/health", query |-> ""],
            x_request_id |-> id] : id \in {Absent, "custom-123"} }
    \cup { [method |-> "POST", uri |-> [path |-> "/health", query |-> ""],
            x_request_id |-> Absent] }

\* values Uuid::new_v4().to_string() may yield
Uuids == {"uuid-1", "uuid-2"}

\* LoadBalancerRequestId::make_request_id
make_request_id == Uuids

\* SetRequestIdLayer: a request without the header gets the generated id
SetRequestId(x_request_id, generated) ==
    IF x_request_id # Absent THEN x_request_id ELSE generated

\* PropagateRequestIdLayer: a response that already carries the header keeps
\* it, any other gets the id of the request
PropagateRequestId(request_id, response_header) ==
    IF response_header # Absent THEN response_header ELSE request_id

\* variant: every path is handed to proxy_endpoint
RouteAllToProxy(method, path) == "proxy_endpoint"

\* the routes of router: /health answers GET (and HEAD) only, every other
\* path goes to proxy_endpoint with any method
Route(method, path) ==
    IF path = "/health"
    THEN IF method \in {"GET", "HEAD"} THEN "health_endpoint" ELSE "method_not_allowed"
    ELSE "proxy_endpoint"

\* health_endpoint (the body of an answer to HEAD is dropped by the method router)
HealthResponse(method) == [status |-> 200, body |-> IF method = "HEAD" THEN "" ELSE "PONG"]

\* the method router's answer to a method the route does not accept
MethodNotAllowedResponse == [status |-> 405, body |-> ""]

\* a response leaves the router through PropagateRequestIdLayer
Respond(r, response, response_header) ==
    [r EXCEPT !.pc = "done",
              !.response = response,
              !.response_x_request_id = PropagateRequestId(r.x_request_id, response_header)]

\* status values a client response carries (u16; 1000 is not an HTTP status)
UpstreamStatuses == {200, 404, 503, 1000}

\* Result<Response, Error> of HttpClient::execute
\* (a response may carry an x-request-id header of its own)
ClientResults ==
    { [kind |-> "Response", val |-> "upstream body", status |-> s,
       x_request_id |-> Absent, headers |-> NoHeaders] : s \in UpstreamStatuses }
    \cup { [kind |-> "Response", val |-> "upstream body", status |-> 200,
            x_request_id |-> "upstream-7", headers |-> NoHeaders] }
    \cup { [kind |-> "Error", val |-> e, status |-> 0, x_request_id |-> Absent,
             headers |-> NoHeaders] : e \in HttpClientErrors }

\* header maps of inbound requests and of upstream responses: none, one
\* readable header next to one of opaque bytes, a name sent twice, and a
\* value in UTF-8 beyond ASCII
HeaderMaps ==
    { <<>>,
      << [name |-> "content-type", value |-> "application/json", text |-> "ascii"],
         [name |-> "invalid-header", value |-> "<FF><FE>", text |-> "opaque"] >>,
      << [name |-> "set-cookie", value |-> "a=1", text |-> "ascii"],
         [name |-> "set-cookie", value |-> "b=2", text |-> "ascii"] >>,
      << [name |-> "x-city", value |-> "K<C3><B6>ln", text |-> "utf8"] >> }

\* an x-request-id value of opaque bytes, which HeaderValue::to_str rejects
OpaqueRequestId == "<FF><FE>"

\* inbound requests with headers and a body
PipelineRequests ==
    { [method |-> m, uri |-> [path |-> "/x", query |-> ""], x_request_id |-> "custom-123",
       headers |-> h, body |-> b] :
        m \in {"GET", "POST", "HEAD"}, h \in HeaderMaps, b \in {"", "payload"} }
    \cup { [method |-> "GET", uri |-> [path |-> "/x", query |-> ""], x_request_id |-> id,
             headers |-> <<>>, body |-> ""] : id \in {Absent, OpaqueRequestId} }

\* more status values: the ends of 100-599 and of the range
\* StatusCode::from_u16 accepts
PipelineStatuses == UpstreamStatuses \cup {99, 100, 599, 600, 999}

\* strings that HeaderName::try_from and HeaderValue::try_from reject
InvalidHeaderNames == {"bad name"}
InvalidHeaderValues == {"line<LF>break"}

\* values an implementation of HttpClient may return: any u16 as status, any
\* strings as headers
PipelineClientResults ==
    { [kind |-> "Response", val |-> "upstream body", status |-> st,
       x_request_id |-> Absent, headers |-> NoHeaders] : st \in PipelineStatuses }
    \cup { [kind |-> "Response", val |-> "upstream body", status |-> 200,
             x_request_id |-> Absent, headers |-> h] :
            h \in { {[name |-> "content-type", value |-> "text/plain"]},
                    {[name |-> "content-type", value |-> "text/plain"],
                     [name |-> "bad name", value |-> "v"]},
                    {[name |-> "x-note", value |-> "line<LF>break"]} } }
    \cup { [kind |-> "Response", val |-> "upstream body", status |-> 200,
             x_request_id |-> "upstream-7", headers |-> NoHeaders] }
    \cup { [kind |-> "Error", val |-> e, status |-> 0, x_request_id |-> Absent,
             headers |-> NoHeaders] : e \in HttpClientErrors }

\* what reqwest gets from the upstream: an error of send(), described by the
\* three tests of HttpClientErrorChecker, or a response whose body may fail
\* to arrive
WireOutcomes ==
    { [kind |-> "SendError", is_timeout |-> t, is_connect |-> c, is_request |-> r] :
        t \in BOOLEAN, c \in BOOLEAN, r \in BOOLEAN }
    \cup { [kind |-> "Response", status |-> st, headers |-> h, body |-> "upstream body",
             body_ok |-> ok] :
            st \in {200, 503}, h \in HeaderMaps, ok \in BOOLEAN }

\* variant: the connect and request tests come before the timeout test
ErrorFromNetworkFirst(is_timeout, is_connect, is_request) ==
    IF is_connect \/ is_request THEN "Network"
    ELSE IF is_timeout THEN "Timeout"
    ELSE "InvalidRequest"

\* impl<T: HttpClientErrorChecker> From<T> for Error
ErrorFrom(is_timeout, is_connect, is_request) ==
    IF is_timeout THEN "Timeout"
    ELSE IF is_connect \/ is_request THEN "Network"
    ELSE "InvalidRequest"

\* HeaderValue::to_str: Ok for visible ASCII only
ToStrOk(entry) == entry.text = "ascii"

\* impl From<HeaderMap> for RequestHeaders (and From<&HeaderMap>): the
\* entries whose value to_str() accepts, collected into a HashMap, where a
\* later entry replaces an earlier one of the same name
HeadersFrom(headers) ==
    { [name |-> headers[i].name, value |-> headers[i].value] :
        i \in { j \in DOMAIN headers :
                  /\ ToStrOk(headers[j])
                  /\ \A k \in DOMAIN headers :
                        (k > j /\ headers[k].name = headers[j].name) => ~ToStrOk(headers[k]) } }

\* the x-request-id entry under that conversion: SetRequestIdLayer has put it
\* among the headers of the request, and it is kept if to_str() accepts it
RequestIdFrom(x_request_id) ==
    IF x_request_id = OpaqueRequestId THEN Absent ELSE x_request_id

\* ReqwestHttpClient::execute from the return of send() on
ReqwestExecute(wire) ==
    IF wire.kind = "SendError"
    THEN [kind |-> "Error", val |-> ErrorFrom(wire.is_timeout, wire.is_connect, wire.is_request),
          status |-> 0, x_request_id |-> Absent, headers |-> NoHeaders]
    ELSE IF ~wire.body_ok
    THEN [kind |-> "Error", val |-> "Network", status |-> 0, x_request_id |-> Absent,
          headers |-> NoHeaders]
    ELSE [kind |-> "Response", val |-> wire.body, status |-> wire.status,
          x_request_id |-> Absent, headers |-> HeadersFrom(wire.headers)]

\* variant: HEAD is forwarded as GET
TryFromMethodWithHead(value) ==
    CASE value = "GET"    -> Ok("Get")
      [] value = "HEAD"   -> Ok("Get")
      [] value = "POST"   -> Ok("Post")
      [] value = "PUT"    -> Ok("Put")
      [] value = "DELETE" -> Ok("Delete")
      [] value = "PATCH"  -> Ok("Patch")
      [] OTHER            -> Err("UnsupportedMethod")

\* impl TryFrom<&Method> for RequestMethod
TryFromMethod(value) ==
    CASE value = "GET"    -> Ok("Get")
      [] value = "POST"   -> Ok("Post")
      [] value = "PUT"    -> Ok("Put")
      [] value = "DELETE" -> Ok("Delete")
      [] value = "PATCH"  -> Ok("Patch")
      [] OTHER            -> Err("UnsupportedMethod")

\* variant: a selector error is answered with INTERNAL_SERVER_ERROR
SelectErrorResponse500(error) == [status |-> 500, body |-> ""]

\* the Err arm of the match on select_server.execute: every selector error
\* is answered with SERVICE_UNAVAILABLE
SelectErrorResponse(error) == [status |-> 503, body |-> ""]

\* the Err arm of the match on to_bytes(body, usize::MAX)
BodyErrorResponse == [status |-> 500, body |-> ""]

\* impl IntoResponse for the unsupported-method error
MethodErrorResponse(error) == [status |-> 500, body |-> ""]

\* variant: a timeout is reported as BAD_GATEWAY
ErrorIntoStatusTimeout502(value) ==
    CASE value = "Network"        -> [status |-> 502, body |-> "Network error"]
      [] value = "InvalidRequest" -> [status |-> 400, body |-> "Invalid request"]
      [] value = "Timeout"        -> [status |-> 502, body |-> "Timeout"]

\* impl From<HttpClientError> for (StatusCode, &str)
ErrorIntoStatus(value) ==
    CASE value = "Network"        -> [status |-> 502, body |-> "Network error"]
      [] value = "InvalidRequest" -> [status |-> 400, body |-> "Invalid request"]
      [] value = "Timeout"        -> [status |-> 504, body |-> "Timeout"]

\* StatusCode::from_u16(value.status).unwrap_or(StatusCode::OK)
StatusFromU16(status) ==
    IF status >= 100 /\ status < 1000 THEN status ELSE 200

\* impl From<HttpClientResponse> for Response<Body>
ResponseFrom(value) == [status |-> StatusFromU16(value.status), body |-> value.val]

\* the loop over value.headers of that conversion: the x-request-id entry of
\* the client response, if any, becomes a header of the response
ResponseHeader(value) == value.x_request_id

\* the other entries of value.headers, each added by Builder::header
ResponseHeaders(value) == value.headers

\* Builder::header keeps the error of a name or value it cannot convert, and
\* body() returns it: the unwrap() of the conversion panics
BuilderFails(value) ==
    \E h \in value.headers :
        h.name \in InvalidHeaderNames \/ h.value \in InvalidHeaderValues

\* variant: a server whose request failed is taken out of the list
EvictOnFailure(list, server, result) ==
    IF result.kind = "Error" \/ result.status >= 500
    THEN SelectSeq(list, LAMBDA s : s # server)
    ELSE list

\* the healthy list after a proxied request: ServerState holds the selector
\* and the client only, proxy_endpoint has no handle on the list
HealthyAfterResult(list, server, result) == list

\* format!("{}{}", server, parts.uri.path())
UpstreamUrl(server, uri) == server \o uri.path

\* a request passes SetRequestIdLayer and is routed: health_endpoint answers
\* at once; proxy_endpoint calls state.select_server.execute(SelectServerRequest {})
Arrive(method, uri, x_request_id, headers, body) ==
    /\ req.pc \in {"idle", "done", "aborted"}
    /\ sel[1].pc = "idle"
    /\ \E generated \in IF x_request_id = Absent THEN make_request_id ELSE {Absent} :
         LET r == [ReqIdle EXCEPT !.method = method, !.uri = uri,
                                  !.headers = headers, !.body = body,
                                  !.x_request_id_in = x_request_id,
                                  !.x_request_id = SetRequestId(x_request_id, generated)]
             route == Route(method, uri.path)
         IN CASE route = "health_endpoint" ->
                   /\ req' = Respond(r, HealthResponse(method), Absent)
                   /\ UNCHANGED sel
              [] route = "method_not_allowed" ->
                   /\ req' = Respond(r, MethodNotAllowedResponse, Absent)
                   /\ UNCHANGED sel
              [] route = "proxy_endpoint" ->
                   /\ CallsLeft
                   /\ req' = [r EXCEPT !.pc = "selecting"]
                   /\ sel' = [sel EXCEPT ![1] = [SelIdle EXCEPT !.pc = "called",
                                                                !.after_cycle = hist.cycled]]
    /\ UNCHANGED <<cli, all_servers, routing_policy, healthy_servers, poisoned, readers,
                   current_server_index, chk, hist>>

\* the match on the selector's result
HandleSelect ==
    /\ req.pc = "selecting"
    /\ sel[1].pc \in {"returned", "panicked"}
    /\ sel' = [sel EXCEPT ![1] = SelIdle]
    /\ req' = IF sel[1].pc = "panicked"
              THEN [req EXCEPT !.pc = "aborted"]
              ELSE IF sel[1].result.kind = "Ok"
              THEN [req EXCEPT !.pc = "selected", !.select = sel[1].result]
              ELSE Respond([req EXCEPT !.select = sel[1].result],
                           SelectErrorResponse(sel[1].result.val), Absent)
    /\ UNCHANGED <<cli, all_servers, routing_policy, healthy_servers, poisoned, readers,
                   current_server_index, chk, hist>>

\* url, headers, to_bytes(body).await, the method conversion and the call of
\* state.http_client.execute
Forward(body_ok) ==
    /\ req.pc = "selected"
    /\ LET url    == UpstreamUrl(req.select.val, req.uri)
           method == TryFromMethod(req.method)
       IN req' = IF ~body_ok
                 THEN Respond(req, BodyErrorResponse, Absent)
                 ELSE IF method.kind = "Err"
                 THEN Respond(req, MethodErrorResponse(method.val), Absent)
                 ELSE [req EXCEPT !.pc = "upstream",
                                  !.sent = [method |-> method.val, url |-> url,
                                            headers |-> HeadersFrom(req.headers),
                                            body |-> req.body,
                                            x_request_id |-> RequestIdFrom(req.x_request_id)]]
    /\ UNCHANGED <<cli, all_servers, routing_policy, healthy_servers, poisoned, readers,
                   current_server_index, chk, sel, hist>>

\* variant: after an error of the client the request is sent again
ReturnedRetries(r, result) ==
    IF result.kind = "Error"
    THEN [r EXCEPT !.pc = "selected", !.upstream = result]
    ELSE IF BuilderFails(result)
    THEN [r EXCEPT !.pc = "aborted", !.upstream = result]
    ELSE [Respond([r EXCEPT !.upstream = result], ResponseFrom(result),
                  ResponseHeader(result))
            EXCEPT !.response_headers = ResponseHeaders(result)]

\* the match on the result of http_client.execute
Returned(r, result) ==
    IF result.kind = "Error"
    THEN Respond([r EXCEPT !.upstream = result], ErrorIntoStatus(result.val), Absent)
    ELSE IF BuilderFails(result)
    THEN [r EXCEPT !.pc = "aborted", !.upstream = result]
    ELSE [Respond([r EXCEPT !.upstream = result], ResponseFrom(result),
                  ResponseHeader(result))
            EXCEPT !.response_headers = ResponseHeaders(result)]

\* http_client.execute returns
UpstreamReturn(result) ==
    /\ req.pc = "upstream"
    /\ req' = Returned(req, result)
    /\ healthy_servers' = HealthyAfterResult(healthy_servers, req.select.val, result)
    /\ UNCHANGED <<cli, all_servers, routing_policy, poisoned, readers,
                   current_server_index, chk, sel, hist>>

\* the execute of ReqwestHttpClient returns what it makes of the upstream's
\* answer
ReqwestReturn(wire) ==
    /\ req.pc = "upstream"
    /\ req' = Returned([req EXCEPT !.wire = wire], ReqwestExecute(wire))
    /\ healthy_servers' = HealthyAfterResult(healthy_servers, req.select.val,
                                             ReqwestExecute(wire))
    /\ UNCHANGED <<cli, all_servers, routing_policy, poisoned, readers,
                   current_server_index, chk, sel, hist>>

Proxy ==
    \/ \E request \in InboundRequests :
          Arrive(request.method, request.uri, request.x_request_id, <<>>, "")
    \/ HandleSelect
    \/ \E body_ok \in BOOLEAN : Forward(body_ok)
    \/ \E result \in ClientResults : UpstreamReturn(result)

\* proxy_endpoint under requests with headers and a body, over any
\* implementation of HttpClient and over ReqwestHttpClient
Pipeline ==
    \/ \E request \in PipelineRequests :
          Arrive(request.method, request.uri, request.x_request_id,
                 request.headers, request.body)
    \/ HandleSelect
    \/ \E body_ok \in BOOLEAN : Forward(body_ok)
    \/ \E result \in PipelineClientResults : UpstreamReturn(result)
    \/ \E wire \in WireOutcomes : ReqwestReturn(wire)

----------------------------------------------------------------------------
(* cli_arguments.rs and main: the command line, CliArguments::parse and the *)
(* start of the checker task                                                *)

\* variant: no server is taken as healthy before its first probe
InitialHealthyNone(servers) == <<>>

\* Arc::new(RwLock::new(servers.clone()))
InitialHealthy(servers) == servers

\* an option that is not on the command line
NotGiven == <<"not given">>

\* the raw value of an option is the sequence of its characters (a target
\* url of --target-servers counts as one character, "," is the delimiter)
DefaultPort == <<"3", "0", "0", "0">>
DefaultRoutingPolicy == <<"round-robin">>
DefaultHealthPath == <<HealthEndpoint>>
DefaultPollingSeconds == <<"1", "0">>

U16Max == 65535

Digit == "0" :> 0 @@ "1" :> 1 @@ "2" :> 2 @@ "3" :> 3 @@ "4" :> 4 @@
         "5" :> 5 @@ "6" :> 6 @@ "7" :> 7 @@ "8" :> 8 @@ "9" :> 9

\* the number a sequence of digits denotes
RECURSIVE Decimal(_)
Decimal(digits) ==
    IF digits = <<>> THEN 0
    ELSE 10 * Decimal(SubSeq(digits, 1, Len(digits) - 1)) + Digit[digits[Len(digits)]]

\* str::parse::<u16> and str::parse::<u64>, as clap's value parser of an
\* unsigned field: digits only, within the type (max = 0: no value of the
\* model is near the end of the type)
ParseUnsigned(raw, max) ==
    IF raw = <<>> \/ \E i \in DOMAIN raw : raw[i] \notin DOMAIN Digit
    THEN Err("invalid digit found in string")
    ELSE IF max > 0 /\ Decimal(raw) > max
    THEN Err("number too large to fit in target type")
    ELSE Ok(Decimal(raw))

\* variant: the values come out last first
RECURSIVE SplitReversed(_, _)
SplitReversed(raw, delimiter) ==
    IF raw = <<>> THEN <<>>
    ELSE IF Head(raw) = delimiter THEN SplitReversed(Tail(raw), delimiter)
    ELSE SplitReversed(Tail(raw), delimiter) \o <<Head(raw)>>

\* value_delimiter = ',': the values of one occurrence of --target-servers
RECURSIVE Split(_, _)
Split(raw, delimiter) ==
    IF raw = <<>> THEN <<>>
    ELSE IF Head(raw) = delimiter THEN Split(Tail(raw), delimiter)
    ELSE <<Head(raw)>> \o Split(Tail(raw), delimiter)

\* ValueEnum of RoutingPolicy, rename_all = "kebab_case"
ParseRoutingPolicy(raw) ==
    IF raw \in {<<"round-robin">>, <<"random">>}
    THEN Ok(raw[1])
    ELSE Err("invalid value")

\* an option's raw value, or its default_value
ValueOr(raw, default) == IF raw = NotGiven THEN default ELSE raw

NoArguments ==
    [port |-> 0, target_servers |-> <<>>, routing_policy |-> "",
     target_servers_health_path |-> HealthEndpoint, health_checker_polling_seconds |-> 0]

\* CliArguments::parse: the struct, or clap's error (the process exits)
Parse(argv) ==
    LET port    == ParseUnsigned(ValueOr(argv.port, DefaultPort), U16Max)
        policy  == ParseRoutingPolicy(ValueOr(argv.routing_policy, DefaultRoutingPolicy))
        path    == ValueOr(argv.target_servers_health_path, DefaultHealthPath)
        polling == ParseUnsigned(ValueOr(argv.health_checker_polling_seconds,
                                         DefaultPollingSeconds), 0)
        servers == Split(ValueOr(argv.target_servers, <<>>), ",")
    IN IF port.kind = "Err" \/ policy.kind = "Err" \/ polling.kind = "Err"
       THEN Err("clap error")
       ELSE Ok([port |-> port.val, target_servers |-> servers,
                routing_policy |-> policy.val,
                target_servers_health_path |-> path[1],
                health_checker_polling_seconds |-> polling.val])

\* command lines: each option given or not
CommandLines ==
    [port : {NotGiven, <<"8", "0", "8", "0">>, <<"7", "0", "0", "0", "0">>},
     target_servers : {NotGiven, <<"http://a">>, <<"http://a", ",", "http://b">>,
                       <<"http://b", ",", "http://a">>},
     routing_policy : {NotGiven, <<"random">>, <<"round-robin">>, <<"weighted">>},
     target_servers_health_path : {NotGiven, <<"/ready">>},
     health_checker_polling_seconds : {NotGiven, <<"0">>, <<"1">>, <<"x">>}]

NoCommandLine ==
    [port |-> NotGiven, target_servers |-> NotGiven, routing_policy |-> NotGiven,
     target_servers_health_path |-> NotGiven, health_checker_polling_seconds |-> NotGiven]

\* the program with its checker task running, as the other specifications
\* take it up
CliRunning(servers, policy) ==
    [pc |-> "running", argv |-> NoCommandLine,
     parsed |-> [NoArguments EXCEPT !.port = 3000, !.target_servers = servers,
                                    !.routing_policy = policy,
                                    !.health_checker_polling_seconds = 10]]

\* let args: CliArguments = CliArguments::parse()
ParseArguments ==
    /\ cli.pc = "args"
    /\ LET parsed == Parse(cli.argv)
       IN cli' = IF parsed.kind = "Err"
                 THEN [cli EXCEPT !.pc = "exited"]
                 ELSE [cli EXCEPT !.pc = "parsed", !.parsed = parsed.val]
    /\ UNCHANGED <<all_servers, routing_policy, healthy_servers, poisoned, readers,
                   current_server_index, chk, sel, req, hist>>

\* main from the bind of the listener to tokio::spawn: the checker and the
\* selector are built over the parsed arguments (a failed bind panics)
Build(bind_ok) ==
    /\ cli.pc = "parsed"
    /\ IF ~bind_ok
       THEN /\ cli' = [cli EXCEPT !.pc = "exited"]
            /\ UNCHANGED <<all_servers, routing_policy, healthy_servers, chk, hist>>
       ELSE /\ cli' = [cli EXCEPT !.pc = "running"]
            /\ all_servers' = cli.parsed.target_servers
            /\ routing_policy' = cli.parsed.routing_policy
            /\ healthy_servers' = InitialHealthy(cli.parsed.target_servers)
            /\ chk' = [ChkWaiting EXCEPT !.pc = "start"]
            /\ hist' = [hist EXCEPT !.replaced = healthy_servers']
    /\ UNCHANGED <<poisoned, readers, current_server_index, sel, req>>

\* the head of execute: time::interval(self.polling_interval), which panics
\* on a period of zero
StartChecker ==
    /\ chk.pc = "start"
    /\ chk' = [chk EXCEPT !.pc = IF cli.parsed.health_checker_polling_seconds = 0
                                 THEN "panicked"
                                 ELSE "waiting"]
    /\ UNCHANGED <<cli, all_servers, routing_policy, healthy_servers, poisoned, readers,
                   current_server_index, sel, req, hist>>

----------------------------------------------------------------------------
(* Construction: TimedBackgroundChecker::new and the selector's new in main *)

InitWith(is_poisoned, max_targets, callers, max_calls) ==
    /\ all_servers \in Configs(max_targets)
    /\ routing_policy \in {"round-robin", "random"}
    /\ healthy_servers = InitialHealthy(all_servers)
    /\ poisoned = is_poisoned
    /\ readers = {}
    /\ current_server_index = 0
    /\ chk = ChkWaiting
    /\ sel = [c \in callers |-> SelIdle]
    /\ req = ReqIdle
    /\ hist = [HistInit EXCEPT !.replaced = healthy_servers, !.max_calls = max_calls]
    /\ cli = CliRunning(all_servers, routing_policy)

InitSelect == InitWith(FALSE, MaxTargets, Callers, MaxCalls)

NextSelect ==
    \/ Checker
    \/ \E c \in Callers : Call(c)
    \/ \E c \in Callers : Select(c)

SpecSelect == InitSelect /\ [][NextSelect]_vars

\* RwLock::write on a lock that readers hold: the lock queues the writer and
\* gives no new read guard until the writer has been served
WriterFirst == chk.pc = "write" => readers' \subseteq readers

NextLive == NextSelect /\ WriterFirst

\* the scheduling of the checker and of the callers: the interval keeps
\* ticking, a probe is bounded by its timeout, a call of execute runs to its
\* return without awaiting, and the waiting writer gets the lock once the
\* read guards taken before it are dropped
Fairness ==
    /\ WF_vars(Tick)
    /\ WF_vars(ProbeIssue)
    /\ WF_vars(\E outcome \in ProbeOutcomes : ProbeResolve(outcome))
    /\ WF_vars(Write)
    /\ \A c \in Callers : WF_vars(Select(c) /\ WriterFirst)

InitLive == InitWith(FALSE, MaxTargets, Callers, MaxLiveCalls)

SpecLive == InitLive /\ [][NextLive]_vars /\ Fairness

\* handlers calling execute concurrently on a selector built over a list
\* that no checker replaces
InitConcurrent == InitWith(FALSE, MaxRotationTargets, 1 .. MaxConcurrent, MaxConcurrentCalls)

NextConcurrent ==
    \/ \E c \in DOMAIN sel : Call(c)
    \/ \E c \in DOMAIN sel : Select(c)

SpecConcurrent == InitConcurrent /\ [][NextConcurrent]_vars

Init == InitWith(FALSE, MaxProxyTargets, Callers, MaxCalls)

Next ==
    \/ Checker
    \/ Proxy
    \/ \E c \in Callers : Select(c)

Spec == Init /\ [][Next]_vars

\* the handler and the selector over a list that no checker replaces
InitPipeline == InitWith(FALSE, MaxTargets, Callers, MaxCalls)

NextPipeline ==
    \/ Pipeline
    \/ \E c \in Callers : Select(c)

SpecPipeline == InitPipeline /\ [][NextPipeline]_vars

\* the program from its command line on: parse, build, start of the checker
\* task and the checker loop
InitCli ==
    /\ cli \in [pc : {"args"}, argv : CommandLines, parsed : {NoArguments}]
    /\ all_servers = <<>>
    /\ routing_policy = ""
    /\ healthy_servers = <<>>
    /\ poisoned = FALSE
    /\ readers = {}
    /\ current_server_index = 0
    /\ chk = [ChkWaiting EXCEPT !.pc = "unstarted"]
    /\ sel = [c \in Callers |-> SelIdle]
    /\ req = ReqIdle
    /\ hist = HistInit

NextCli ==
    \/ ParseArguments
    \/ \E bind_ok \in BOOLEAN : Build(bind_ok)
    \/ StartChecker
    \/ Checker

SpecCli == InitCli /\ [][NextCli]_vars

\* the lock was poisoned before the selector and the checker use it
InitPoisoned == \E is_poisoned \in BOOLEAN : InitWith(is_poisoned, MaxProxyTargets, Callers, MaxCalls)

SpecPoisoned == InitPoisoned /\ [][Next]_vars

----------------------------------------------------------------------------
(* Properties *)

\* the sub-sequence of list at the positions where flags is TRUE
RECURSIVE Kept(_, _)
Kept(list, flags) ==
    IF list = <<>> \/ flags = <<>> THEN <<>>
    ELSE IF Head(flags) THEN <<Head(list)>> \o Kept(Tail(list), Tail(flags))
    ELSE Kept(Tail(list), Tail(flags))

SupportedMethods == {"GET", "POST", "PUT", "DELETE", "PATCH"}

\* C1: with either selector, and whatever the checker does meanwhile, an
\* execute() that returns a server returns an element of the list the call
\* read under its read guard.
C1_SelectedFromSnapshot ==
    [][ \A c \in Callers :
          (sel[c].pc = "picked" /\ sel'[c].pc = "returned")
              => /\ sel'[c].result.kind = "Ok"
                 /\ sel'[c].result.val \in Range(sel[c].snapshot) ]_vars

\* C1 witness: a selection has returned a server, and a cycle of the checker
\* that completed since has removed that server from the list.
C1_Witness ==
    \E c \in Callers :
        /\ sel[c].pc = "returned"
        /\ sel[c].result.kind = "Ok"
        /\ hist.cycled
        /\ sel[c].result.val \notin Range(healthy_servers)

\* C2: in every state every element of the healthy list is a configured
\* target.
C2_HealthySubsetOfConfigured ==
    Range(healthy_servers) \subseteq Range(all_servers)

\* C2 witness: a cycle has replaced the list by a proper, non-empty part of
\* the configured targets.
C2_Witness ==
    /\ hist.cycled
    /\ healthy_servers # <<>>
    /\ healthy_servers # all_servers

\* C3: while the healthy list is the one set at construction (no replacement
\* has happened), the k-th successful round-robin execute() (k counted from
\* 0) uses index k mod N and returns list[k mod N].
C3_RoundRobinRotation ==
    [][ \A c \in Callers :
          (routing_policy = "round-robin" /\ ~hist.cycled) =>
              /\ (sel[c].pc = "locked" /\ sel'[c].pc = "picked")
                    => sel'[c].idx = hist.fetches % Len(all_servers)
              /\ (sel[c].pc = "picked" /\ sel'[c].pc = "returned")
                    => sel'[c].result = Ok(all_servers[sel[c].idx + 1]) ]_vars

\* C4: once a probe cycle has completed, the healthy list is the sequence of
\* the configured targets whose probe in the last completed cycle returned
\* status 200, in configured order.
C4_ListIsHealthyProbes ==
    hist.cycled => healthy_servers = Kept(all_servers, hist.last_cycle)

\* C4 witness: a cycle has replaced the list, and the next cycle is about to
\* replace it by a list that re-admits a target the last one excluded and
\* excludes one it admitted.
C4_Witness ==
    /\ hist.cycled
    /\ chk.pc = "write"
    /\ Range(chk.new_healthy_servers) \ Range(healthy_servers) # {}
    /\ Range(healthy_servers) \ Range(chk.new_healthy_servers) # {}

\* C5: is_server_healthy sends a GET to target + health path and returns
\* true exactly when the probe yields a response of status 200; other
\* statuses, client errors and the elapsed timeout give false.
C5_HealthyIffStatus200 ==
    hist.last_probe # None =>
        /\ hist.last_probe.request = [method |-> "Get",
                                      url |-> hist.last_probe.server \o "/health"]
        /\ hist.last_probe.healthy =
             ( /\ hist.last_probe.outcome.kind = "Response"
               /\ hist.last_probe.outcome.status = 200 )

\* C5 witness: a probe answered with status 204 was judged unhealthy.
C5_Witness ==
    /\ hist.last_probe # None
    /\ hist.last_probe.outcome.kind = "Response"
    /\ hist.last_probe.outcome.status = 204
    /\ ~hist.last_probe.healthy

\* C6: a request whose selection found no healthy target is answered 503
\* without a call of HttpClient.execute; after a completed cycle in which
\* every probe failed the list is empty, and a selection that reads an empty
\* list reports NoOneIsAlive.
C6_NoOneIsAliveGives503 ==
    /\ (req.pc = "done" /\ req.select = Err("NoOneIsAlive"))
           => (req.response.status = 503 /\ req.sent = NoRequest)
    /\ (hist.cycled /\ \A i \in 1 .. Len(hist.last_cycle) : ~hist.last_cycle[i])
           => healthy_servers = <<>>
    /\ (sel[1].pc = "returned" /\ sel[1].was_empty)
           => sel[1].result = Err("NoOneIsAlive")

\* C6 witness: every probe of the last cycle failed and a request has been
\* answered 503 with no upstream call.
C6_Witness ==
    /\ all_servers # <<>>
    /\ hist.cycled
    /\ healthy_servers = <<>>
    /\ req.pc = "done"
    /\ req.select = Err("NoOneIsAlive")
    /\ req.response.status = 503

\* C7: with either selector, execute() on an empty list returns NoOneIsAlive;
\* it never reaches the index computation with an empty list and never
\* panics.
C7_EmptyListGivesNoOneIsAlive ==
    \A c \in Callers :
        /\ sel[c].pc # "panicked"
        /\ sel[c].pc \in {"locked", "picked"} => sel[c].len > 0
        /\ sel[c].pc \in {"locked", "picked"} => ~sel[c].was_empty
        /\ (sel[c].pc = "returned" /\ sel[c].was_empty)
               => sel[c].result = Err("NoOneIsAlive")

\* C7 witness: a call on a list emptied by the checker returned NoOneIsAlive.
C7_Witness ==
    \E c \in Callers :
        /\ sel[c].pc = "returned"
        /\ sel[c].was_empty
        /\ all_servers # <<>>
        /\ sel[c].result = Err("NoOneIsAlive")

\* C8: when HttpClient.execute fails, the response is 504 "Timeout" for
\* Timeout, 502 "Network error" for Network and 400 "Invalid request" for
\* InvalidRequest, and nothing else.
C8_ClientErrorMapping ==
    (req.pc = "done" /\ req.upstream.kind = "Error") =>
        /\ req.upstream.val = "Timeout"
               => req.response = [status |-> 504, body |-> "Timeout"]
        /\ req.upstream.val = "Network"
               => req.response = [status |-> 502, body |-> "Network error"]
        /\ req.upstream.val = "InvalidRequest"
               => req.response = [status |-> 400, body |-> "Invalid request"]
        /\ req.response.status \in {504, 502, 400}

\* C8 witness: an upstream call timed out and the request was answered.
C8_Witness ==
    /\ req.pc = "done"
    /\ req.upstream.kind = "Error"
    /\ req.upstream.val = "Timeout"
    /\ req.sent # NoRequest

\* C9 (as stated): a request with a method outside GET, POST, PUT, DELETE,
\* PATCH is answered 500 with no upstream call, whatever the healthy list is.
C9_UnsupportedMethodAlways500 ==
    (req.pc = "done" /\ req.method \notin SupportedMethods)
        => (req.response.status = 500 /\ req.sent = NoRequest)

\* C9 (amended): a request with a method outside GET, POST, PUT, DELETE,
\* PATCH never causes an upstream call; it is answered 500 when its
\* selection succeeded and 503 when the selector returned an error, the
\* selection being made before the method is looked at.
C9_UnsupportedMethodNoUpstream ==
    req.method \notin SupportedMethods =>
        /\ req.pc # "upstream"
        /\ req.sent = NoRequest
        /\ (req.pc = "done" /\ req.select.kind = "Ok") => req.response.status = 500
        /\ (req.pc = "done" /\ req.select.kind = "Err") => req.response.status = 503

\* C9 witness: an OPTIONS request for which a server was selected has been
\* answered 500.
C9_Witness ==
    /\ req.pc = "done"
    /\ req.method = "OPTIONS"
    /\ req.select.kind = "Ok"
    /\ req.response.status = 500

\* C10: when the selector returns PoisonedRead the request is answered 500.
C10_PoisonedReadGives500 ==
    (req.pc = "done" /\ req.select = Err("PoisonedRead"))
        => req.response.status = 500

\* C11: the URL sent upstream is the selected target followed by the inbound
\* path and, when the inbound request has a query, by "?" and that query.
C11_UpstreamUrlKeepsQuery ==
    req.sent # NoRequest =>
        req.sent.url = req.select.val \o req.uri.path
                         \o (IF req.uri.query = "" THEN "" ELSE "?" \o req.uri.query)

\* C12: the response to a request that carried an x-request-id header carries
\* x-request-id with the same value, whatever the outcome of the pipeline.
C12_InboundRequestIdPropagated ==
    (req.pc = "done" /\ req.x_request_id_in # Absent)
        => req.response_x_request_id = req.x_request_id_in

\* C13: every response carries a non-empty x-request-id; for a request that
\* carried none it is the UUID generated for that request.
C13_ResponseAlwaysHasRequestId ==
    req.pc = "done" =>
        /\ req.response_x_request_id \notin {Absent, ""}
        /\ req.x_request_id_in = Absent =>
               /\ req.response_x_request_id \in Uuids
               /\ req.response_x_request_id = req.x_request_id

\* C14: GET /health is answered 200 "PONG" in every state of the healthy list,
\* with no selection made and no request sent upstream.
C14_HealthAnswersPong ==
    (req.pc = "done" /\ req.method = "GET" /\ req.uri.path = "/health") =>
        /\ req.response = [status |-> 200, body |-> "PONG"]
        /\ req.select = None
        /\ req.sent = NoRequest
        /\ req.upstream = None

\* C14 witness: GET /health was answered 200 while the healthy list was
\* empty, every probe of the last cycle having failed.
C14_Witness ==
    /\ req.pc = "done"
    /\ req.method = "GET"
    /\ req.uri.path = "/health"
    /\ req.response.status = 200
    /\ all_servers # <<>>
    /\ hist.cycled
    /\ healthy_servers = <<>>

\* C15: a selection never sees the list change under it: from its read of the
\* list to its return the list is the one it read, whole; the list changes
\* only by a replacement of the whole list while no selection holds it.
C15_SelectionSeesWholeList ==
    [][ /\ \A c \in DOMAIN sel :
              /\ sel[c].pc \in {"locked", "picked"} =>
                     /\ healthy_servers = sel[c].snapshot
                     /\ sel[c].len = Len(healthy_servers)
                     /\ healthy_servers' = healthy_servers
              /\ (sel[c].pc = "picked" /\ sel'[c].pc # "picked") =>
                     sel'[c].result = Ok(sel[c].snapshot[sel[c].idx + 1])
        /\ healthy_servers' # healthy_servers =>
              /\ readers = {}
              /\ healthy_servers' = chk.new_healthy_servers ]_vars

\* C15 witness: a selection holds the list while the checker is about to
\* replace it by a different one.
C15_Witness ==
    \E c \in DOMAIN sel :
        /\ sel[c].pc \in {"locked", "picked"}
        /\ chk.pc = "write"
        /\ chk.new_healthy_servers # healthy_servers

\* the round-robin selections completed over the list set at construction
RECURSIVE Completed(_)
Completed(list) ==
    IF list = <<>> THEN 0 ELSE hist.returns[Head(list)] + Completed(Tail(list))

\* C16: with any number of handlers selecting concurrently over a constant
\* list of N servers, from counter 0, once N*k round-robin selections have
\* been made and have completed each server has been returned exactly k times.
C16_EachServerKTimes ==
    LET N == Len(all_servers)
    IN ( /\ routing_policy = "round-robin"
         /\ N > 0
         /\ \A c \in DOMAIN sel : sel[c].pc \in {"idle", "returned"}
         /\ Completed(all_servers) % N = 0 )
       => \A i \in 1 .. N :
              hist.returns[all_servers[i]] = Completed(all_servers) \div N

\* C17: a round-robin execute() that returns a server advances the counter by
\* exactly one, modulo the counter's width, and one that returns NoOneIsAlive
\* or PoisonedRead leaves it as it was; nothing else changes the counter.
C17_CounterAdvancesOnSuccessOnly ==
    [][ routing_policy = "round-robin" =>
          /\ \A c \in DOMAIN sel :
                /\ (sel[c].pc = "called" /\ sel'[c].pc = "returned") =>
                       /\ sel'[c].result \in {Err("NoOneIsAlive"), Err("PoisonedRead")}
                       /\ current_server_index' = current_server_index
                /\ (sel[c].pc = "locked" /\ sel'[c].pc # "locked") =>
                       /\ sel'[c].pc = "picked"
                       /\ current_server_index' = (current_server_index + 1) % (2 ^ UsizeBits)
                /\ (sel[c].pc = "picked" /\ sel'[c].pc # "picked") =>
                       /\ sel'[c].pc = "returned"
                       /\ sel'[c].result.kind = "Ok"
                       /\ current_server_index' = current_server_index
          /\ current_server_index' # current_server_index =>
                \E c \in DOMAIN sel : sel[c].pc = "locked" /\ sel'[c].pc = "picked" ]_vars

\* C17 witness: the counter has advanced, and a later execute() returned
\* NoOneIsAlive.
C17_Witness ==
    /\ routing_policy = "round-robin"
    /\ current_server_index > 0
    /\ \E c \in DOMAIN sel :
          sel[c].pc = "returned" /\ sel[c].result = Err("NoOneIsAlive")

\* C18: over a constant list of N servers every round-robin selection uses
\* the index that follows the one of the selection before it, modulo N, also
\* when the counter passes from 2^w - 1 to 0.
C18_WrapUnobservable ==
    [][ \A c \in DOMAIN sel :
          ( /\ routing_policy = "round-robin"
            /\ sel[c].pc = "locked" /\ sel'[c].pc = "picked"
            /\ hist.last_pick.len > 0
            /\ hist.last_pick.len = sel[c].len )
          => sel'[c].idx = (hist.last_pick.idx + 1) % sel[c].len ]_vars

\* C19: with targets [A, B], once a cycle in which B's probe failed has
\* completed no selection returns B (and every selection returns A when A's
\* probe returned 200) until a cycle in which B's probe returns 200
\* completes; after a cycle in which both returned 200, successive
\* round-robin selections alternate between A and B.
C19_FailedTargetLeftOutThenBack ==
    [][ (all_servers = <<TargetUrls[1], TargetUrls[2]>> /\ hist.cycled) =>
          \A c \in DOMAIN sel :
            /\ (~hist.last_cycle[2] /\ sel[c].pc = "picked" /\ sel'[c].pc # "picked") =>
                   /\ sel'[c].result # Ok(TargetUrls[2])
                   /\ hist.last_cycle[1] => sel'[c].result = Ok(TargetUrls[1])
            /\ ( /\ hist.last_cycle = <<TRUE, TRUE>>
                 /\ routing_policy = "round-robin"
                 /\ sel[c].pc = "locked" /\ sel'[c].pc # "locked"
                 /\ hist.last_pick.len = 2 ) =>
                   sel'[c].idx = 1 - hist.last_pick.idx
            /\ ( /\ hist.last_cycle = <<TRUE, TRUE>>
                 /\ sel[c].pc = "picked" /\ sel'[c].pc # "picked" ) =>
                   sel'[c].result = Ok(all_servers[sel[c].idx + 1]) ]_vars

\* C19 witness: B's probe failed in the last cycle, and the round-robin
\* selection made since, whose turn it was to return B, returned A.
C19_Witness ==
    /\ all_servers = <<TargetUrls[1], TargetUrls[2]>>
    /\ routing_policy = "round-robin"
    /\ hist.cycled
    /\ hist.last_cycle = <<TRUE, FALSE>>
    /\ hist.last_pick = [idx |-> 0, len |-> 1]
    /\ current_server_index = 2
    /\ \E c \in DOMAIN sel :
          sel[c].pc = "returned" /\ sel[c].result = Ok(TargetUrls[1])

\* C20: a selection that starts after a replacement of the list has completed
\* reads the list stored by the latest replacement completed when it reads
\* (that replacement or a later one), never an earlier list.
C20_SelectionAfterReplaceReadsIt ==
    [][ \A c \in DOMAIN sel :
          (sel[c].pc = "called" /\ sel[c].after_cycle /\ sel'[c].pc # "called") =>
              IF hist.replaced = <<>>
              THEN sel'[c].pc = "returned" /\ sel'[c].result = Err("NoOneIsAlive")
              ELSE sel'[c].pc = "locked" /\ sel'[c].snapshot = hist.replaced ]_vars

\* C20 witness: a selection started after a replacement holds the list that
\* replacement stored, which is not the configured one.
C20_Witness ==
    \E c \in DOMAIN sel :
        /\ sel[c].pc = "locked"
        /\ sel[c].after_cycle
        /\ sel[c].snapshot = hist.replaced
        /\ sel[c].snapshot # all_servers

\* C21: when the first cycle has not completed the healthy list is the
\* configured list, in its order: a selection reads that list, returns only
\* configured targets (NoOneIsAlive when none is configured), and a random
\* selection can return each of them.
C21_AllHealthyBeforeFirstCycle ==
    ~hist.cycled =>
        /\ healthy_servers = all_servers
        /\ \A c \in DOMAIN sel :
              /\ sel[c].pc \in {"locked", "picked"} => sel[c].snapshot = all_servers
              /\ sel[c].pc = "returned" =>
                     IF all_servers = <<>>
                     THEN sel[c].result = Err("NoOneIsAlive")
                     ELSE \E i \in 1 .. Len(all_servers) :
                              sel[c].result = Ok(all_servers[i])
              /\ (sel[c].pc = "locked" /\ routing_policy = "random") =>
                     \A i \in 1 .. Len(all_servers) :
                         ENABLED (RandomPick(c) /\ sel'[c].idx = i - 1)

\* C21 witness: the first cycle is still probing and a selection has
\* returned the last of several configured targets.
C21_Witness ==
    /\ ~hist.cycled
    /\ chk.pc = "probe_wait"
    /\ Len(all_servers) > 1
    /\ \E c \in DOMAIN sel :
          /\ sel[c].pc = "returned"
          /\ sel[c].result = Ok(all_servers[Len(all_servers)])

\* C22: the checker loop is never left, whatever the probes return; every
\* cycle started on a non-empty configuration probes every target, replaces
\* the list and goes back to waiting for the next tick, again and again.
C22_CheckerLoopNeverStops ==
    /\ [](chk.pc \in {"waiting", "probing", "probe_wait", "write"})
    /\ [][ chk'.pc = "waiting" /\ chk.pc # "waiting" =>
             /\ Len(hist.cycle_ok) = Len(all_servers)
             /\ hist'.last_cycle = hist.cycle_ok
             /\ healthy_servers' = chk.new_healthy_servers ]_vars
    /\ (chk.pc # "waiting") ~> (chk.pc = "waiting" /\ hist.cycled)
    /\ all_servers # <<>> => []<>(chk.pc # "waiting")

\* C22 witness: a cycle in which every probe failed has completed and the
\* next cycle is probing.
C22_Witness ==
    /\ Len(all_servers) > 1
    /\ hist.cycled
    /\ \A i \in 1 .. Len(all_servers) : ~hist.last_cycle[i]
    /\ chk.pc = "probe_wait"

\* C23: with no target configured a tick issues no probe and replaces
\* nothing: the checker stays waiting and the healthy list stays empty.
C23_EmptyConfigurationNeverProbes ==
    all_servers = <<>> =>
        /\ healthy_servers = <<>>
        /\ chk = ChkWaiting
        /\ ~hist.cycled
        /\ hist.last_probe = None

\* C23 witness: no target is configured, the interval has ticked and a
\* selection has returned NoOneIsAlive.
C23_Witness ==
    /\ all_servers = <<>>
    /\ hist.ticked
    /\ \E c \in DOMAIN sel :
          sel[c].pc = "returned" /\ sel[c].result = Err("NoOneIsAlive")

\* C30: while the checker probes it holds no lock: the list does not change
\* and a selection that was called can read it; the list is written once per
\* cycle, as a whole, after the probe of the last target has resolved.
C30_NoLockWhileProbing ==
    [][ /\ chk.pc \in {"probing", "probe_wait"} =>
              /\ healthy_servers' = healthy_servers
              /\ \A c \in DOMAIN sel : sel[c].pc = "called" => ENABLED SelRead(c)
        /\ (chk'.pc = "write" /\ chk.pc # "write") =>
              /\ chk.pc = "probe_wait"
              /\ chk.i = Len(all_servers)
        /\ (chk.pc = "write" /\ chk'.pc # "write") =>
              /\ chk' = ChkWaiting
              /\ Len(hist.cycle_ok) = Len(all_servers)
              /\ healthy_servers' = chk.new_healthy_servers
        /\ healthy_servers' # healthy_servers => chk.pc = "write" ]_vars

\* C30 witness: a selection holds the read guard while the probe of the
\* second target is in flight.
C30_Witness ==
    /\ chk.pc = "probe_wait"
    /\ chk.i = 2
    /\ \E c \in DOMAIN sel : sel[c].pc = "picked"

\* C24: on upstream success the status answered is the status of the client
\* response when that is in 100-599, and 200 when it is not.
C24_StatusVerbatimOr200 ==
    (req.pc = "done" /\ req.upstream.kind = "Response") =>
        req.response.status = IF req.upstream.status \in 100 .. 599
                              THEN req.upstream.status
                              ELSE 200

C26_RequestHandedUnchanged ==
    req.sent # NoRequest =>
        /\ TryFromMethod(req.method) = Ok(req.sent.method)
        /\ req.sent.body = req.body
        /\ \A i \in DOMAIN req.headers :
              [name |-> req.headers[i].name, value |-> req.headers[i].value]
                  \in req.sent.headers
              <=> req.headers[i].text \in {"ascii", "utf8"}
        /\ \A h \in req.sent.headers :
              \E i \in DOMAIN req.headers :
                  h = [name |-> req.headers[i].name, value |-> req.headers[i].value]

\* C27: on upstream success the response has the body of the client
\* response and every header of it, and with ReqwestHttpClient every header
\* the upstream sent as text, each value of a name sent several times
\* included.
C27_UpstreamHeadersAndBodyReturned ==
    (req.pc = "done" /\ req.upstream.kind = "Response") =>
        /\ req.response.body = req.upstream.val
        /\ req.upstream.headers \subseteq req.response_headers
        /\ req.wire.kind = "Response" =>
              /\ req.response.body = req.wire.body
              /\ \A i \in DOMAIN req.wire.headers :
                    req.wire.headers[i].text \in {"ascii", "utf8"} =>
                        [name |-> req.wire.headers[i].name,
                         value |-> req.wire.headers[i].value] \in req.response_headers

\* C28: whatever the selector and the client return, proxy_endpoint returns
\* a response: no request is left without one by a panic.
C28_EveryRequestAnswered ==
    /\ req.pc # "aborted"
    /\ req.pc = "done" => req.response # NoResponse

\* C29: the healthy list changes only in the write of the checker; no step
\* of a selection or of a proxied request changes it, so that the list is
\* what the last completed cycle of probes made it (the configured list
\* before the first) whatever proxied requests returned.
C29_OnlyCheckerWritesHealthyList ==
    [][ /\ healthy_servers' # healthy_servers =>
              /\ chk.pc = "write" /\ chk'.pc = "waiting"
              /\ req' = req /\ sel' = sel
        /\ (req' # req \/ sel' # sel) => healthy_servers' = healthy_servers
        /\ healthy_servers' = IF hist'.cycled
                              THEN Kept(all_servers, hist'.last_cycle)
                              ELSE all_servers ]_vars

\* C29 witness: the server a proxied request was sent to answered 503, and
\* it is in the healthy list after that.
C29_Witness ==
    /\ req.pc = "done"
    /\ req.upstream.kind = "Response"
    /\ req.upstream.status = 503
    /\ req.select.val \in Range(healthy_servers)

\* C31: a cycle whose probes have the outcomes of the cycle before it
\* replaces the list by a list equal to it: the list is as it was, and so is
\* what decides the selections that follow (the round-robin counter).
C31_ReplaceIsIdempotent ==
    [][ ( /\ chk.pc = "write" /\ chk'.pc = "waiting"
          /\ hist.cycled
          /\ hist.cycle_ok = hist.last_cycle )
        => /\ chk.new_healthy_servers = healthy_servers
           /\ healthy_servers' = healthy_servers
           /\ current_server_index' = current_server_index
           /\ sel' = sel ]_vars

\* C31 witness: a cycle left a shorter list, and the cycle after it, with the
\* same outcomes, is at its write.
C31_Witness ==
    /\ chk.pc = "write"
    /\ hist.cycled
    /\ hist.cycle_ok = hist.last_cycle
    /\ healthy_servers # all_servers
    /\ healthy_servers # <<>>

\* C32: a random selection over a non-empty list can pick every index of
\* the list, whatever the calls before it picked; it returns the element at
\* the index it picked, and picking changes nothing but the call itself
\* (the selector keeps no state).
C32_RandomPicksAnyElement ==
    [][ routing_policy = "random" =>
          \A c \in DOMAIN sel :
            /\ sel[c].pc = "locked" =>
                  /\ sel[c].len = Len(healthy_servers)
                  /\ \A i \in 0 .. Len(healthy_servers) - 1 :
                        ENABLED (RandomPick(c) /\ sel'[c].idx = i)
            /\ (sel[c].pc = "locked" /\ sel'[c].pc # "locked") =>
                  /\ sel'[c].pc = "picked"
                  /\ sel'[c].idx \in 0 .. sel[c].len - 1
                  /\ current_server_index' = current_server_index
                  /\ hist' = hist
                  /\ healthy_servers' = healthy_servers
            /\ (sel[c].pc = "picked" /\ sel'[c].pc # "picked") =>
                  sel'[c].result = Ok(healthy_servers[sel[c].idx + 1]) ]_vars

\* C32 witness: a random selection made after a cycle has returned the last
\* of several healthy servers.
C32_Witness ==
    /\ routing_policy = "random"
    /\ hist.cycled
    /\ Len(healthy_servers) > 1
    /\ \E c \in DOMAIN sel :
          /\ sel[c].pc = "returned"
          /\ sel[c].result = Ok(healthy_servers[Len(healthy_servers)])

\* C34: in a cycle the probes are issued one at a time in the configured
\* order: the probe of a target is issued when the probes of all targets
\* before it, and no other, have resolved, and whatever a probe's outcome
\* the next target is probed next.
C34_ProbesSequentialInOrder ==
    [][ /\ (chk.pc = "probing" /\ chk'.pc # "probing") =>
              /\ chk'.pc = "probe_wait"
              /\ chk'.i = chk.i
              /\ chk'.request = HealthRequest(all_servers[chk.i])
              /\ Len(hist.cycle_ok) = chk.i - 1
        /\ (chk.pc = "probe_wait" /\ chk'.pc # "probe_wait") =>
              /\ Len(hist'.cycle_ok) = chk.i
              /\ IF chk.i < Len(all_servers)
                 THEN chk'.pc = "probing" /\ chk'.i = chk.i + 1
                 ELSE chk'.pc = "write"
        /\ (chk.pc = "waiting" /\ chk'.pc # "waiting") =>
              chk'.pc = "probing" /\ chk'.i = 1 ]_vars

\* C34 witness: the probe of the first of two targets failed and the probe
\* of the second is in flight.
C34_Witness ==
    /\ Len(all_servers) = 2
    /\ chk.pc = "probe_wait"
    /\ chk.i = 2
    /\ hist.cycle_ok = <<FALSE>>

\* C36: a selection indexes the list with an index smaller than the length
\* of the list as it is when indexed, also when the checker is replacing the
\* list by a shorter one; no selection panics, the lock is not poisoned and
\* no selection returns PoisonedRead.
C36_IndexWithinListNoPanic ==
    /\ ~poisoned
    /\ \A c \in DOMAIN sel :
          /\ sel[c].pc # "panicked"
          /\ sel[c].result # Err("PoisonedRead")
          /\ sel[c].pc \in {"locked", "picked"} =>
                /\ c \in readers
                /\ sel[c].len = Len(healthy_servers)
                /\ sel[c].len > 0
          /\ sel[c].pc = "picked" => sel[c].idx < Len(healthy_servers)

\* C36 witness: a selection has picked the last index of the list while the
\* checker waits to replace the list by a shorter one.
C36_Witness ==
    /\ chk.pc = "write"
    /\ \E c \in DOMAIN sel :
          /\ sel[c].pc = "picked"
          /\ sel[c].idx = Len(healthy_servers) - 1
          /\ sel[c].idx >= Len(chk.new_healthy_servers)

\* C38: under the fair scheduling, a target whose probes all succeed from
\* some point on is from some point on always in the healthy list, and a
\* target whose probes all fail from some point on is from some point on
\* never in it.
C38_ListFollowsLastingProbeOutcome ==
    \A i \in 1 .. MaxTargets :
        /\ <>[](i \in DOMAIN hist.cycle_ok => hist.cycle_ok[i])
              => <>[](i \in DOMAIN all_servers => all_servers[i] \in Range(healthy_servers))
        /\ <>[](i \in DOMAIN hist.cycle_ok => ~hist.cycle_ok[i])
              => <>[](i \in DOMAIN all_servers => all_servers[i] \notin Range(healthy_servers))

\* C38 witness: the last cycle found the first target failing and the second
\* healthy, and the list holds the second only.
C38_Witness ==
    /\ Len(all_servers) = 2
    /\ hist.cycled
    /\ hist.last_cycle = <<FALSE, TRUE>>
    /\ healthy_servers = <<all_servers[2]>>
    /\ chk.pc = "waiting"

\* C37: a proxied request makes one selection, started when it arrives, and
\* at most one call of the client, made after the selection returned a
\* server and sent to that server; once the client has returned, with a
\* response or an error, the request is answered without a further selection
\* or call.
C37_OneSelectionOneUpstreamCall ==
    [][ /\ (sel'[1].pc = "called" /\ sel[1].pc # "called") =>
              /\ req.pc \in {"idle", "done", "aborted"}
              /\ req'.pc = "selecting"
        /\ req'.pc = "selecting" =>
              req'.sent = NoRequest /\ req'.upstream = None
        /\ (req.pc = "selecting" /\ req'.pc # "selecting") =>
              /\ sel'[1].pc = "idle"
              /\ req'.sent = NoRequest
              /\ IF sel[1].result.kind = "Ok"
                 THEN req'.pc = "selected" /\ req'.select = sel[1].result
                 ELSE req'.pc = "done"
        /\ (req.pc = "selected" /\ req'.pc # "selected") =>
              /\ sel'[1].pc = "idle"
              /\ req'.upstream = None
              /\ IF req'.pc = "upstream"
                 THEN req'.sent.url = req.select.val \o req.uri.path
                 ELSE req'.pc = "done" /\ req'.sent = NoRequest
        /\ (req.pc = "upstream" /\ req' # req) =>
              /\ req'.pc \in {"done", "aborted"}
              /\ req'.sent = req.sent
              /\ req'.select = req.select
              /\ sel'[1].pc = "idle" ]_vars

\* C37 witness: the client returned a network error for the request sent
\* to the selected server, and the request was answered 502.
C37_Witness ==
    /\ req.pc = "done"
    /\ req.upstream.kind = "Error"
    /\ req.upstream.val = "Network"
    /\ req.response.status = 502
    /\ req.select.kind = "Ok"
    /\ req.sent.url = req.select.val \o req.uri.path
    /\ sel[1].pc = "idle"

\* C39: with round robin the selection of a request that finds the list
\* non-empty advances the counter once, before the body is read and the
\* method converted; a request then rejected for its body or its method is
\* answered 500 without being sent, and the counter keeps the advance.
C39_CounterAdvancesForRejectedRequests ==
    [][ routing_policy = "round-robin" =>
          /\ (sel[1].pc = "called" /\ sel'[1].pc # "called") =>
                IF healthy_servers = <<>>
                THEN sel'[1].pc = "returned" /\ current_server_index' = current_server_index
                ELSE sel'[1].pc = "locked"
          /\ (sel[1].pc = "locked" /\ sel'[1].pc # "locked") =>
                /\ sel'[1].pc = "picked"
                /\ req.pc = "selecting"
                /\ req.sent = NoRequest
                /\ sel'[1].idx = current_server_index % sel[1].len
                /\ current_server_index' = (current_server_index + 1) % UsizeModulus
          /\ (req.pc = "selected" /\ req'.pc # "selected") =>
                /\ current_server_index' = current_server_index
                /\ req'.pc = "done" <=>
                      (req.method \notin SupportedMethods \/ req'.response = BodyErrorResponse)
                /\ req'.pc = "done" =>
                      req'.sent = NoRequest /\ req'.response.status = 500
          /\ current_server_index' # current_server_index =>
                sel[1].pc = "locked" ]_vars

\* C39 witness: with round robin over two healthy servers the first server
\* was selected for a request with an unsupported method: nothing was sent,
\* and the counter has moved on to the second server.
C39_Witness ==
    /\ routing_policy = "round-robin"
    /\ Len(all_servers) = 2
    /\ healthy_servers = all_servers
    /\ req.pc = "done"
    /\ req.method \notin SupportedMethods
    /\ req.select = Ok(all_servers[1])
    /\ req.sent = NoRequest
    /\ req.response.status = 500
    /\ current_server_index = 1

\* C35: the request sent upstream carries an x-request-id, the inbound one
\* when the request came with one and the generated one otherwise, and the
\* response to the caller carries the same value.
C35_SameRequestIdUpstreamAndBack ==
    (req.pc = "done" /\ req.sent # NoRequest) =>
        /\ req.sent.x_request_id # Absent
        /\ req.sent.x_request_id = req.x_request_id
        /\ req.x_request_id_in # Absent => req.sent.x_request_id = req.x_request_id_in
        /\ req.x_request_id_in = Absent => req.sent.x_request_id \in make_request_id
        /\ req.response_x_request_id = req.sent.x_request_id

\* C33: a command line with --target-servers only is accepted and parsed to
\* port 3000, round-robin, health path "/health" and a polling interval of
\* 10 seconds; the targets of a comma-separated value are the parsed targets
\* in the order written, and the checker is built over them in that order.
C33_DefaultsAndTargetOrder ==
    /\ ( /\ cli.pc \notin {"args"}
         /\ cli.argv.target_servers # NotGiven
         /\ [cli.argv EXCEPT !.target_servers = NotGiven] = NoCommandLine )
       => /\ cli.parsed.port = 3000
          /\ cli.parsed.routing_policy = "round-robin"
          /\ cli.parsed.target_servers_health_path = "/health"
          /\ cli.parsed.health_checker_polling_seconds = 10
    /\ cli.pc \in {"parsed", "running"} =>
          /\ cli.argv.target_servers = <<"http://b", ",", "http://a">> =>
                cli.parsed.target_servers = <<"http://b", "http://a">>
          /\ cli.argv.target_servers = <<"http://a", ",", "http://b">> =>
                cli.parsed.target_servers = <<"http://a", "http://b">>
          /\ cli.argv.target_servers # NotGiven =>
                cli.parsed.target_servers =
                    SelectSeq(cli.argv.target_servers, LAMBDA t : t # ",")
    /\ cli.pc = "running" => all_servers = cli.parsed.target_servers

\* C33 witness: the program was started with --target-servers
\* http://b,http://a and nothing else, and its checker probes http://b
\* first, at /health.
C33_Witness ==
    /\ cli.pc = "running"
    /\ cli.argv = [NoCommandLine EXCEPT
                      !.target_servers = <<"http://b", ",", "http://a">>]
    /\ chk.pc = "probe_wait"
    /\ chk.i = 1
    /\ chk.request = [method |-> "Get", url |-> "http://b/health"]

\* C40: an accepted command line has a polling interval of at least one
\* second, and the checker task started with it does not stop at its start.
C40_PollingIntervalAtLeastOne ==
    /\ cli.pc \in {"parsed", "running"} =>
          cli.parsed.health_checker_polling_seconds >= 1
    /\ chk.pc # "panicked"

====
